---- MODULE Spec2Model ----
(***************************************************************************)
(* Model of swfextract's media payload decoding: the ADPCM stream sound    *)
(* accumulator (src/src/sound.rs), the lossless bitmap reconstruction      *)
(* (src/src/main.rs, src/src/bitmap.rs) and the tag dispatch loop.         *)
(*                                                                         *)
(* Byte buffers are sequences of integers 0..255.  Bits are read from them *)
(* most-significant-bit first.                                             *)
(***************************************************************************)
EXTENDS Integers, Naturals, Sequences, FiniteSets, TLC

VARIABLES
    a_format,    \* append_data: self.format ([compression, is_stereo])
    a_block,     \* append_data: the argument `data` (one stream block)
    a_data,      \* append_data: self.data
    a_pc,        \* append_data: "start", "loop", "done" or "panicked"
    a_reader,    \* append_data: adpcm_reader, the decoder state (NoReader before)
    a_frames,    \* history: the sample frames the reader has yielded so far
    b_rec,       \* a DefineBitsLossless tag, its data already inflated
    b_pc,        \* "tag", "stored", "written", "failed" or "panicked"
    b_bitmap,    \* the Bitmap process_tags has built from the tag (NoBitmap before)
    b_result,    \* what Bitmap::write returned and what its writer received
    b_panic,     \* the message of the panic that ended the processing ("" if none)
    stream_sound,   \* process_tags: Option<Sound>, the stream sound being accumulated
    id_to_bitmap,   \* process_tags: the bitmaps met so far, by id
    files,          \* the files created so far, by name, with what was written to them
    p_pc,           \* process_tags: "tags" (in the loop), "done" or "panicked"
    p_panic,        \* process_tags: the message of its panic ("" if none)
    p_count,        \* history: the number of tags processed
    p_blocks,       \* history: the blocks appended to stream_sound since its head
    p_tags          \* history: the stream tags processed (heads and blocks), in tag order

a_vars == <<a_format, a_block, a_data, a_pc, a_reader, a_frames>>

b_vars == <<b_rec, b_pc, b_bitmap, b_result, b_panic>>

p_vars == <<stream_sound, id_to_bitmap, files, p_pc, p_panic, p_count, p_blocks, p_tags>>

vars == <<a_format, a_block, a_data, a_pc, a_reader, a_frames,
          b_rec, b_pc, b_bitmap, b_result, b_panic,
          stream_sound, id_to_bitmap, files, p_pc, p_panic, p_count, p_blocks,
          p_tags>>

(***************************************************************************)
(* Bounds of the model.                                                    *)
(***************************************************************************)
\* longest stream block, in bytes
MaxBytes == 8
\* number of delta codes chosen freely in a block (the rest of the block is zero bits)
MaxCodes == 3
\* largest width and height of a lossless bitmap, longest inflated data
MaxWidth == 5
MaxHeight == 2
MaxPayload == 28
\* longest tag sequence given to process_tags
MaxTags == 4

(***************************************************************************)
(* Arithmetic helpers.                                                     *)
(***************************************************************************)
Pow2(n) == 2 ^ n

Min(a, b) == IF a <= b THEN a ELSE b

clamp(x, lo, hi) == IF x < lo THEN lo ELSE IF x > hi THEN hi ELSE x

\* i16::to_le_bytes: low byte first, the value taken modulo 2^16
to_le_bytes(v) == <<(v % 65536) % 256, (v % 65536) \div 256>>

\* the i16 a pair of little-endian bytes stands for
from_le_bytes(lo, hi) ==
    LET u == lo + 256 * hi IN IF u >= 32768 THEN u - 65536 ELSE u

(***************************************************************************)
(* Bit reader: bit i of a buffer, most significant bit of each byte first. *)
(***************************************************************************)
BitLen(buf) == 8 * Len(buf)

Bit(buf, i) == (buf[(i \div 8) + 1] \div Pow2(7 - (i % 8))) % 2

RECURSIVE ReadBits(_, _, _)
ReadBits(buf, pos, n) ==
    IF n = 0 THEN 0
    ELSE 2 * ReadBits(buf, pos, n - 1) + Bit(buf, pos + n - 1)

SignExtend16(u) == IF u >= 32768 THEN u - 65536 ELSE u

(***************************************************************************)
(* AdpcmDecoder (crate::adpcm, `mod adpcm` of main.rs; its file is not     *)
(* among the sources).  The decoder follows the specification's section    *)
(* 4.1: a block starts with the bit-width field, then one header per       *)
(* channel (16-bit initial predictor, step-index field), then the delta    *)
(* codes, frame by frame.  The widths of the two fields and the entries of *)
(* the tables are fixed here within what section 4.1 says of them.         *)
(***************************************************************************)
BitWidths == {2, 3, 4, 5}

\* width of the encoded bit-width field at the start of a block
BitWidthFieldBits == 3
\* width of the initial predictor of a channel header
PredictorBits == 16
\* width of the step-index field of a channel header
StepIndexBits == 6

ChannelHeaderBits == PredictorBits + StepIndexBits

Channels(is_stereo) == IF is_stereo THEN 2 ELSE 1

HeaderBits(is_stereo) == BitWidthFieldBits + Channels(is_stereo) * ChannelHeaderBits

table_size(w) == Pow2(w)

\* monotonically increasing, indexed 0..table_size-1, width-specific
step_size_table(w) ==
    [i \in 0..(table_size(w) - 1) |-> 7 + i * (32760 \div (table_size(w) - 1))]

\* step multiplier of a code without its sign bit
magnitude_table(w) == [m \in 0..(Pow2(w - 1) - 1) |-> 2 * m + 1]

\* larger magnitude codes increase step_index, smaller ones decrease it
index_delta_table(w) ==
    [m \in 0..(Pow2(w - 1) - 1) |->
        IF 2 * m < Pow2(w - 1) THEN -1 ELSE 2 * (m - (Pow2(w - 1) \div 2) + 1)]

shift(w) == w - 1

NoReader == [bit_width |-> 0]

\* the header of channel c (0 = left, 1 = right) starts at this bit
ChannelHeaderPos(c) == BitWidthFieldBits + c * ChannelHeaderBits

\* ChannelState seeded from the header: the predictor sign-extended, the
\* step index clamped into the table of the bit width
seed_channel(buf, c, w) ==
    [predictor |-> SignExtend16(ReadBits(buf, ChannelHeaderPos(c), PredictorBits)),
     step_index |-> clamp(ReadBits(buf, ChannelHeaderPos(c) + PredictorBits, StepIndexBits),
                          0, table_size(w) - 1)]

\* AdpcmDecoder::new with the upper limit of the bit-width check off by one
AdpcmDecoder_new_wide(buf, is_stereo) ==
    IF BitLen(buf) < HeaderBits(is_stereo)
    THEN [err |-> "InvalidHeader", reader |-> NoReader]
    ELSE IF ReadBits(buf, 0, BitWidthFieldBits) \notin 2..6
    THEN [err |-> "InvalidHeader", reader |-> NoReader]
    ELSE LET w == ReadBits(buf, 0, BitWidthFieldBits) IN
         [err |-> "none",
          reader |-> [bit_width |-> w,
                      is_stereo |-> is_stereo,
                      pos |-> HeaderBits(is_stereo),
                      channels |-> [c \in 1..Channels(is_stereo) |-> seed_channel(buf, c - 1, w)],
                      ended |-> FALSE]]

\* AdpcmDecoder::new(data, is_stereo): Err(InvalidHeader) or Ok(reader)
AdpcmDecoder_new(buf, is_stereo) ==
    IF BitLen(buf) < HeaderBits(is_stereo)
    THEN [err |-> "InvalidHeader", reader |-> NoReader]
    ELSE IF ReadBits(buf, 0, BitWidthFieldBits) \notin BitWidths
    THEN [err |-> "InvalidHeader", reader |-> NoReader]
    ELSE LET w == ReadBits(buf, 0, BitWidthFieldBits) IN
         [err |-> "none",
          reader |-> [bit_width |-> w,
                      is_stereo |-> is_stereo,
                      pos |-> HeaderBits(is_stereo),
                      channels |-> [c \in 1..Channels(is_stereo) |-> seed_channel(buf, c - 1, w)],
                      ended |-> FALSE]]

\* decode_step without the two clamps
decode_step_unclamped(ch, w, code) ==
    LET m == code % Pow2(w - 1)
        negative == (code \div Pow2(w - 1)) = 1
        step_size == step_size_table(w)[clamp(ch.step_index, 0, table_size(w) - 1)]
        delta == (magnitude_table(w)[m] * step_size) \div Pow2(shift(w))
    IN  [predictor |-> ch.predictor + (IF negative THEN -delta ELSE delta),
         step_index |-> ch.step_index + index_delta_table(w)[m]]

\* one decode step of a channel: steps 1 to 4 of the algorithm
decode_step(ch, w, code) ==
    LET m == code % Pow2(w - 1)
        negative == (code \div Pow2(w - 1)) = 1
        step_size == step_size_table(w)[ch.step_index]
        delta == (magnitude_table(w)[m] * step_size) \div Pow2(shift(w))
    IN  [predictor |-> clamp(ch.predictor + (IF negative THEN -delta ELSE delta), -32768, 32767),
         step_index |-> clamp(ch.step_index + index_delta_table(w)[m], 0, table_size(w) - 1)]

\* bits left in the buffer behind the reader's cursor
Remaining(buf, rd) == BitLen(buf) - rd.pos

\* next that yields a frame as soon as the first channel's code is there; a
\* channel whose code is missing repeats its last sample
AdpcmDecoder_next_partial(buf, rd) ==
    LET w == rd.bit_width
        n == Channels(rd.is_stereo)
    IN  IF rd.ended \/ Remaining(buf, rd) < w
        THEN [reader |-> [rd EXCEPT !.ended = TRUE], frame |-> <<>>]
        ELSE LET chs == [c \in 1..n |->
                            IF Remaining(buf, rd) - (c - 1) * w < w THEN rd.channels[c]
                            ELSE decode_step(rd.channels[c], w,
                                             ReadBits(buf, rd.pos + (c - 1) * w, w))]
             IN  [reader |-> [rd EXCEPT !.pos = rd.pos + Min(n * w, Remaining(buf, rd)),
                                        !.channels = chs],
                  frame |-> [c \in 1..n |-> chs[c].predictor]]

\* next that decodes every channel's code from the state of the left channel
AdpcmDecoder_next_shared(buf, rd) ==
    LET w == rd.bit_width
        n == Channels(rd.is_stereo)
    IN  IF rd.ended \/ \E c \in 0..(n - 1) : Remaining(buf, rd) - c * w < w
        THEN [reader |-> [rd EXCEPT !.ended = TRUE], frame |-> <<>>]
        ELSE LET chs == [c \in 1..n |->
                            decode_step(rd.channels[1], w,
                                        ReadBits(buf, rd.pos + (c - 1) * w, w))]
             IN  [reader |-> [rd EXCEPT !.pos = rd.pos + n * w, !.channels = chs],
                  frame |-> [c \in 1..n |-> chs[c].predictor]]

\* Iterator::next: reads one code per channel, left then right; the frame is
\* <<>> (None) when fewer than bit_width bits remain for some channel
AdpcmDecoder_next(buf, rd) ==
    LET w == rd.bit_width
        n == Channels(rd.is_stereo)
    IN  IF rd.ended \/ \E c \in 0..(n - 1) : Remaining(buf, rd) - c * w < w
        THEN [reader |-> [rd EXCEPT !.ended = TRUE], frame |-> <<>>]
        ELSE LET chs == [c \in 1..n |->
                            decode_step(rd.channels[c], w,
                                        ReadBits(buf, rd.pos + (c - 1) * w, w))]
             IN  [reader |-> [rd EXCEPT !.pos = rd.pos + n * w, !.channels = chs],
                  frame |-> [c \in 1..n |-> chs[c].predictor]]

(***************************************************************************)
(* Sound::append_data (src/src/sound.rs), one statement at a time.         *)
(***************************************************************************)
\* the bytes of a loop that appends samples[0] only
frame_bytes_left_only(samples, is_stereo) == to_le_bytes(samples[1])

\* the bytes one iteration of the loop appends for a frame
frame_bytes(samples, is_stereo) ==
    to_le_bytes(samples[1]) \o (IF is_stereo THEN to_le_bytes(samples[2]) ELSE <<>>)

\* lines 24-27 and 34-36: the branch on the compression, the decoder's
\* construction with its expect(), or the plain extend
append_data_start ==
    /\ a_pc = "start"
    /\ IF a_format.compression = "Adpcm"
       THEN LET res == AdpcmDecoder_new(a_block, a_format.is_stereo) IN
            IF res.err # "none"
            THEN /\ a_pc' = "panicked"
                 /\ UNCHANGED <<a_reader, a_data>>
            ELSE /\ a_pc' = "loop"
                 /\ a_reader' = res.reader
                 /\ UNCHANGED a_data
       ELSE /\ a_pc' = "done"
            /\ a_data' = a_data \o a_block
            /\ UNCHANGED a_reader
    /\ UNCHANGED <<a_format, a_block, a_frames>>
    /\ UNCHANGED <<b_vars, p_vars>>

\* lines 28-33: one turn of `for samples in adpcm_reader`
append_data_loop ==
    /\ a_pc = "loop"
    /\ LET nx == AdpcmDecoder_next(a_block, a_reader) IN
       /\ a_reader' = nx.reader
       /\ IF nx.frame = <<>>
          THEN /\ a_pc' = "done"
               /\ UNCHANGED <<a_data, a_frames>>
          ELSE /\ a_pc' = "loop"
               /\ a_data' = a_data \o frame_bytes(nx.frame, a_format.is_stereo)
               /\ a_frames' = Append(a_frames, nx.frame)
    /\ UNCHANGED <<a_format, a_block>>
    /\ UNCHANGED <<b_vars, p_vars>>

(***************************************************************************)
(* The stream blocks the model feeds to append_data.                       *)
(***************************************************************************)
\* the n bits of v, most significant first
ToBits(v, n) == [i \in 1..n |-> (v \div Pow2(n - i)) % 2]

\* the first nbytes bytes of a bit string, zero bits behind its end
PackBits(bits, nbytes) ==
    LET b(i) == IF i <= Len(bits) THEN bits[i] ELSE 0 IN
    [k \in 1..nbytes |->
        b(8*k-7) * 128 + b(8*k-6) * 64 + b(8*k-5) * 32 + b(8*k-4) * 16
        + b(8*k-3) * 8 + b(8*k-2) * 4 + b(8*k-1) * 2 + b(8*k)]

RECURSIVE Flatten(_)
Flatten(ss) == IF ss = <<>> THEN <<>> ELSE Head(ss) \o Flatten(Tail(ss))

\* header seeds <<predictor, step-index field>>
Seeds == {<<0, 0>>, <<32767, 63>>, <<-32768, 5>>}

SeedBits(sd) == ToBits(sd[1] % 65536, PredictorBits) \o ToBits(sd[2], StepIndexBits)

\* delta codes: smallest positive, largest positive, largest negative
CodeKinds == {"small", "up", "down"}

CodeOf(kind, w) ==
    IF kind = "small" THEN 0
    ELSE IF kind = "up" THEN Pow2(w - 1) - 1
    ELSE Pow2(w) - 1

CodeSeqs == UNION {[1..k -> CodeKinds] : k \in 0..MaxCodes}

AdpcmBlock(field, is_stereo, sl, sr, codes, nbytes) ==
    LET w == clamp(field, 2, 5) IN
    PackBits(ToBits(field, BitWidthFieldBits)
             \o SeedBits(sl)
             \o (IF is_stereo THEN SeedBits(sr) ELSE <<>>)
             \o Flatten([i \in 1..Len(codes) |-> ToBits(CodeOf(codes[i], w), w)]),
             nbytes)

RawBlocks == UNION {[1..k -> {0, 255}] : k \in 0..2}

\* the bitmap part of the state while append_data is looked at
BitmapIdle ==
    /\ b_rec = [format |-> "none"]
    /\ b_pc = "idle"
    /\ b_bitmap = [data |-> [kind |-> "none"]]
    /\ b_result = [err |-> "none", header |-> <<>>, image |-> <<>>]
    /\ b_panic = ""

\* the process_tags part of the state while one operation is looked at
TagsIdle ==
    /\ stream_sound = [none |-> TRUE]
    /\ id_to_bitmap = <<>>
    /\ files = <<>>
    /\ p_pc = "idle"
    /\ p_panic = ""
    /\ p_count = 0
    /\ p_blocks = <<>>
    /\ p_tags = <<>>

InitAppend ==
    /\ BitmapIdle
    /\ TagsIdle
    /\ a_data = <<>>
    /\ a_pc = "start"
    /\ a_reader = NoReader
    /\ a_frames = <<>>
    /\ \/ /\ \E st \in BOOLEAN : a_format = [compression |-> "Adpcm", is_stereo |-> st]
          /\ \E field \in 0..(Pow2(BitWidthFieldBits) - 1), sl \in Seeds, sr \in Seeds,
                codes \in CodeSeqs, nbytes \in 0..MaxBytes :
                a_block = AdpcmBlock(field, a_format.is_stereo, sl, sr, codes, nbytes)
       \/ /\ \E st \in BOOLEAN, cp \in {"Uncompressed", "Mp3"} :
                a_format = [compression |-> cp, is_stereo |-> st]
          /\ a_block \in RawBlocks

NextAppend ==
    \/ append_data_start
    \/ append_data_loop

SpecAppend == InitAppend /\ [][NextAppend]_vars

(***************************************************************************)
(* Lossless bitmaps: the DefineBitsLossless arm of process_tags            *)
(* (src/src/main.rs) and Bitmap::write (src/src/bitmap.rs).                *)
(*                                                                         *)
(* main.rs builds Rgb15 and Rgb24 bitmaps from the bytes it has inflated   *)
(* and stripped of padding (field image_data); the pixel loops of          *)
(* Bitmap::write run over the bytes of that field.  The PNG encoder is a   *)
(* sink: it receives the header and then what write_image_data is given.   *)
(***************************************************************************)
NoBitmap == [data |-> [kind |-> "none"]]

NoResult == [err |-> "none", header |-> <<>>, image |-> <<>>]

\* padding_count without the test for an aligned row
padding_count_unguarded(bpp, width) == 4 - ((bpp * width) % 4)

\* the padding bytes skipped behind a row of pixels of bpp bytes each (the
\* product is a u16; it does not overflow for the widths of the model)
padding_count(bpp, width) ==
    IF (bpp * width) % 4 # 0 THEN 4 - ((bpp * width) % 4) ELSE 0

\* the row loops of main.rs: per row, `width` calls of data_iter.next()
\* whose bytes are kept, then padding_count calls whose bytes are dropped;
\* unwrap() panics when the iterator is at its end
RECURSIVE strip_rows(_, _, _, _, _, _)
strip_rows(padded, pos, rows_left, width, pad, image_data) ==
    IF rows_left = 0 THEN [panic |-> "", image_data |-> image_data]
    ELSE IF pos + width + pad > Len(padded)
    THEN [panic |-> "unwrap on None", image_data |-> image_data]
    ELSE strip_rows(padded, pos + width + pad, rows_left - 1, width, pad,
                    image_data \o SubSeq(padded, pos + 1, pos + width))

\* the palette loops run num_colors times instead of num_colors + 1 times
palette_of_declared(palette_bytes, component_count, actual_num_colors) ==
    [i \in 1..(actual_num_colors - 1) |->
        SubSeq(palette_bytes, component_count * (i - 1) + 1, component_count * i)]

\* the palette loops: component_count bytes per colour, in stored order
palette_of(palette_bytes, component_count, actual_num_colors) ==
    [i \in 1..actual_num_colors |->
        SubSeq(palette_bytes, component_count * (i - 1) + 1, component_count * i)]

\* Tag::DefineBitsLossless(bmap): the Bitmap inserted into id_to_bitmap, or
\* the message of the panic
define_bits_lossless(bmap) ==
    IF bmap.format = "ColorMap8" THEN
        LET actual_num_colors == bmap.num_colors + 1
            component_count == IF bmap.version = 2 THEN 4 ELSE 3
            palette_len == component_count * actual_num_colors
        IN  IF Len(bmap.data) < palette_len
            THEN [panic |-> "failed to read palette", bitmap |-> NoBitmap]
            ELSE LET palette_bytes == SubSeq(bmap.data, 1, palette_len)
                     image_data_padded == SubSeq(bmap.data, palette_len + 1, Len(bmap.data))
                     rows == strip_rows(image_data_padded, 0, bmap.height, bmap.width,
                                        padding_count(1, bmap.width), <<>>)
                 IN  IF rows.panic # ""
                     THEN [panic |-> rows.panic, bitmap |-> NoBitmap]
                     ELSE [panic |-> "",
                           bitmap |-> [width |-> bmap.width, height |-> bmap.height,
                                       data |-> [kind |-> IF bmap.version = 2
                                                          THEN "ColorMappedAlpha"
                                                          ELSE "ColorMapped",
                                                 palette |-> palette_of(palette_bytes,
                                                     component_count, actual_num_colors),
                                                 image_data |-> rows.image_data]]]
    ELSE IF bmap.format = "Rgb15" THEN
        IF bmap.version = 2
        THEN [panic |-> "forbidden combo of version 2 with format Rgb15", bitmap |-> NoBitmap]
        ELSE LET rows == strip_rows(bmap.data, 0, bmap.height, bmap.width,
                                    padding_count(2, bmap.width), <<>>)
             IN  IF rows.panic # ""
                 THEN [panic |-> rows.panic, bitmap |-> NoBitmap]
                 ELSE [panic |-> "",
                       bitmap |-> [width |-> bmap.width, height |-> bmap.height,
                                   data |-> [kind |-> "Rgb15",
                                             image_data |-> rows.image_data]]]
    ELSE \* Rgb32
        IF bmap.version = 2
        THEN [panic |-> "",
              bitmap |-> [width |-> bmap.width, height |-> bmap.height,
                          data |-> [kind |-> "Rgba32", image_data |-> bmap.data]]]
        ELSE LET rows == strip_rows(bmap.data, 0, bmap.height, bmap.width,
                                    padding_count(3, bmap.width), <<>>)
             IN  IF rows.panic # ""
                 THEN [panic |-> rows.panic, bitmap |-> NoBitmap]
                 ELSE [panic |-> "",
                       bitmap |-> [width |-> bmap.width, height |-> bmap.height,
                                   data |-> [kind |-> "Rgb24",
                                             image_data |-> rows.image_data]]]

\* the scaling by a shift to the left
scale_5_to_8_shift(value) == (value % 32) * 8

\* the scaling by bit replication
scale_5_to_8_replicate(value) == (value % 32) * 8 + ((value % 32) \div 4)

\* Scales a 5-bit value to an 8-bit value: the f64 product truncated
scale_5_to_8(value) == ((value % 32) * 255) \div 31

\* the pixel from a word read with its low byte first
rgb15_pixel_le(top_byte, bottom_byte) ==
    LET word == bottom_byte * 256 + top_byte IN
    <<scale_5_to_8(word \div 1024), scale_5_to_8(word \div 32), scale_5_to_8(word)>>

\* one Rgb15 pixel from its two bytes
rgb15_pixel(top_byte, bottom_byte) ==
    LET word == top_byte * 256 + bottom_byte IN
    <<scale_5_to_8(word \div 1024), scale_5_to_8(word \div 32), scale_5_to_8(word)>>

\* the row loop of the Rgb15 arm: 2 bytes per pixel, ShortRead at the end
\* of the data; the rows before it have gone to the encoder
RECURSIVE write_rgb15_rows(_, _, _, _, _)
write_rgb15_rows(image_data, pos, rows_left, width, image) ==
    IF rows_left = 0 THEN [err |-> "none", image |-> image]
    ELSE IF pos + 2 * width > Len(image_data) THEN [err |-> "ShortRead", image |-> image]
    ELSE write_rgb15_rows(image_data, pos + 2 * width, rows_left - 1, width,
            Append(image, Flatten([c \in 1..width |->
                rgb15_pixel(image_data[pos + 2 * c - 1], image_data[pos + 2 * c])])))

\* the row loop of the Rgb24 arm: 3 bytes per pixel
RECURSIVE write_rgb24_rows(_, _, _, _, _)
write_rgb24_rows(image_data, pos, rows_left, width, image) ==
    IF rows_left = 0 THEN [err |-> "none", image |-> image]
    ELSE IF pos + 3 * width > Len(image_data) THEN [err |-> "ShortRead", image |-> image]
    ELSE write_rgb24_rows(image_data, pos + 3 * width, rows_left - 1, width,
            Append(image, SubSeq(image_data, pos + 1, pos + 3 * width)))

\* Bitmap::write for the lossless kinds bitmap.rs has an arm for: the
\* result, the PNG header and the image data handed to the encoder
Bitmap_write(self) ==
    IF self.data.kind = "ColorMapped" THEN
        [err |-> "none",
         header |-> <<"Indexed", self.width, self.height, Flatten(self.data.palette)>>,
         image |-> <<self.data.image_data>>]
    ELSE IF self.data.kind = "Rgb15" THEN
        LET rows == write_rgb15_rows(self.data.image_data, 0, self.height, self.width, <<>>) IN
        [err |-> rows.err,
         header |-> <<"Rgb", self.width, self.height>>,
         image |-> rows.image]
    ELSE \* Rgb24
        LET rows == write_rgb24_rows(self.data.image_data, 0, self.height, self.width, <<>>) IN
        [err |-> rows.err,
         header |-> <<"Rgb", self.width, self.height>>,
         image |-> rows.image]

\* the kinds of BitmapData src/src/bitmap.rs writes
WritableKinds == {"ColorMapped", "Rgb15", "Rgb24"}

\* process_tags meets the tag (lines 88-262)
lossless_tag ==
    /\ b_pc = "tag"
    /\ LET res == define_bits_lossless(b_rec) IN
       /\ b_pc' = IF res.panic # "" THEN "panicked" ELSE "stored"
       /\ b_bitmap' = res.bitmap
       /\ b_panic' = res.panic
    /\ UNCHANGED <<b_rec, b_result>>
    /\ UNCHANGED <<a_vars, p_vars>>

\* process_tags writes the bitmap (lines 333-339)
lossless_write ==
    /\ b_pc = "stored"
    /\ b_bitmap.data.kind \in WritableKinds
    /\ b_result' = Bitmap_write(b_bitmap)
    /\ b_pc' = IF b_result'.err = "none" THEN "written" ELSE "failed"
    /\ UNCHANGED <<b_rec, b_bitmap, b_panic>>
    /\ UNCHANGED <<a_vars, p_vars>>

\* inflated data of the records: bytes that differ from place to place
Ramp(base, len) == [i \in 1..len |-> (base + 3 * (i - 1)) % 256]

\* the sound part of the state while a bitmap is looked at
AppendIdle ==
    /\ a_format = [compression |-> "none", is_stereo |-> FALSE]
    /\ a_block = <<>>
    /\ a_data = <<>>
    /\ a_pc = "idle"
    /\ a_reader = NoReader
    /\ a_frames = <<>>

InitBitmap ==
    /\ AppendIdle
    /\ TagsIdle
    /\ b_pc = "tag"
    /\ b_bitmap = NoBitmap
    /\ b_result = NoResult
    /\ b_panic = ""
    /\ \E format \in {"ColorMap8", "Rgb15", "Rgb32"}, version \in {1, 2},
          num_colors \in {0, 1}, width \in 1..MaxWidth, height \in 1..MaxHeight,
          base \in {1, 250}, len \in 0..MaxPayload :
          /\ format # "ColorMap8" => num_colors = 0
          /\ b_rec = [format |-> format, version |-> version, num_colors |-> num_colors,
                      width |-> width, height |-> height, data |-> Ramp(base, len)]

NextBitmap ==
    \/ lossless_tag
    \/ lossless_write

SpecBitmap == InitBitmap /\ [][NextBitmap]_vars


(***************************************************************************)
(* Sound::append_data, Sound::extension, Sound::write and write_wav as     *)
(* whole calls (src/src/sound.rs).                                         *)
(***************************************************************************)
\* the loop `for samples in adpcm_reader`, run to the end of the sequence
RECURSIVE adpcm_loop(_, _, _, _)
adpcm_loop(buf, rd, is_stereo, data) ==
    LET nx == AdpcmDecoder_next(buf, rd) IN
    IF nx.frame = <<>> THEN data
    ELSE adpcm_loop(buf, nx.reader, is_stereo, data \o frame_bytes(nx.frame, is_stereo))

\* append_data whose reader starts from the last sample appended before
append_data_carry(self, data) ==
    IF self.format.compression = "Adpcm"
    THEN LET res == AdpcmDecoder_new(data, self.format.is_stereo) IN
         IF res.err # "none"
         THEN [panic |-> "failed to create ADPCM reader", sound |-> self]
         ELSE LET n == Len(self.data)
                  rd == IF n < 2 THEN res.reader
                        ELSE [res.reader EXCEPT !.channels =
                                [c \in DOMAIN res.reader.channels |->
                                    [res.reader.channels[c] EXCEPT !.predictor =
                                        from_le_bytes(self.data[n - 1], self.data[n])]]]
              IN  [panic |-> "",
                   sound |-> [self EXCEPT !.data =
                                adpcm_loop(data, rd, self.format.is_stereo, self.data)]]
    ELSE [panic |-> "", sound |-> [self EXCEPT !.data = self.data \o data]]

\* Sound::append_data(&mut self, data): the sound afterwards, or the panic
append_data(self, data) ==
    IF self.format.compression = "Adpcm"
    THEN LET res == AdpcmDecoder_new(data, self.format.is_stereo) IN
         IF res.err # "none"
         THEN [panic |-> "failed to create ADPCM reader", sound |-> self]
         ELSE [panic |-> "",
               sound |-> [self EXCEPT !.data =
                            adpcm_loop(data, res.reader, self.format.is_stereo, self.data)]]
    ELSE [panic |-> "", sound |-> [self EXCEPT !.data = self.data \o data]]

Sound_extension(self) ==
    IF self.format.compression \in {"Adpcm", "Uncompressed", "UncompressedUnknownEndian"}
    THEN "wav"
    ELSE IF self.format.compression = "Mp3" THEN "mp3"
    ELSE "bin"

u16_le(v) == <<v % 256, (v \div 256) % 256>>

u32_le(v) == <<v % 256, (v \div 256) % 256, (v \div 65536) % 256, (v \div 16777216) % 256>>

\* b"RIFF", b"WAVE", b"fmt " and b"data"
RIFF == <<82, 73, 70, 70>>

WAVE == <<87, 65, 86, 69>>

FMT == <<102, 109, 116, 32>>

DATA == <<100, 97, 116, 97>>

\* Sound::write_wav: the bytes written, or the panic of unreachable!()
write_wav(self) ==
    LET sample_rate_bytes == u32_le(self.format.sample_rate)
        bytes_per_sec_bytes ==
            u32_le(self.format.sample_rate
                   * (IF self.format.is_16_bit THEN 2 ELSE 1)
                   * (IF self.format.is_stereo THEN 2 ELSE 1))
        sample_alignment_bytes ==
            u16_le(1 * (IF self.format.is_16_bit THEN 2 ELSE 1)
                     * (IF self.format.is_stereo THEN 2 ELSE 1))
        bits_per_sample_bytes ==
            u16_le(IF self.format.compression = "Uncompressed"
                   THEN (IF self.format.is_16_bit THEN 16 ELSE 8)
                   ELSE 16)
        fmt_data == <<1, 0, IF self.format.is_stereo THEN 2 ELSE 1, 0>>
                    \o sample_rate_bytes \o bytes_per_sec_bytes
                    \o sample_alignment_bytes \o bits_per_sample_bytes
        riff_data_len == 4 + 4 + 4 + Len(fmt_data) + 4 + 4 + Len(self.data)
    IN  IF self.format.compression \notin {"Uncompressed", "Adpcm"}
        THEN [panic |-> "unreachable", bytes |-> <<>>]
        ELSE [panic |-> "",
              bytes |-> RIFF \o u32_le(riff_data_len) \o WAVE
                        \o FMT \o u32_le(Len(fmt_data)) \o fmt_data
                        \o DATA \o u32_le(Len(self.data)) \o self.data]

\* Sound::write
Sound_write(self) ==
    IF self.format.compression = "Mp3" THEN [panic |-> "", bytes |-> self.data]
    ELSE IF self.format.compression \in {"Adpcm", "Uncompressed", "UncompressedUnknownEndian"}
    THEN write_wav(self)
    ELSE [panic |-> "", bytes |-> self.data]

(***************************************************************************)
(* process_tags (src/src/main.rs): one action per tag of the sequence,     *)
(* then the writing of the stream sound and of the bitmaps.  DefineSound   *)
(* has a specification of its own (SpecSound); DefineEditText,             *)
(* DefineShape, DefineSprite and the JPEG tags without alpha data are not  *)
(* part of the model.                                                      *)
(***************************************************************************)
None == [none |-> TRUE]

\* File::create(name) followed by the writes of content
WriteFile(fs, name, content) ==
    [n \in (DOMAIN fs) \cup {name} |-> IF n = name THEN content ELSE fs[n]]

\* id_to_bitmap.insert(id, bitmap)
Insert(map, id, bitmap) ==
    [i \in (DOMAIN map) \cup {id} |-> IF i = id THEN bitmap ELSE map[i]]

FileName(stem, ext) == <<stem, ext>>

\* Bitmap::extension
Bitmap_extension(self) ==
    IF self.data.kind = "Gif" THEN "gif"
    ELSE IF self.data.kind = "Jpeg"
    THEN (IF self.data.alpha_data # None THEN "png" ELSE "jpeg")
    ELSE "png"

\* flate2's ZlibDecoder over the alpha data, read to its end: the bytes, or
\* the error of a stream that is not a zlib stream
inflate(ad) ==
    IF ad.intact THEN [err |-> "none", bytes |-> ad.inflated]
    ELSE [err |-> "ZlibDecoding", bytes |-> <<>>]

\* jpeg_decoder's answers for a JPEG file: info() gives the width, the height
\* and the pixel format of its frame, decode() the pixels (width * height
\* pixels of the format's size) or the error of a damaged file
jpeg_info(jpeg_data) == jpeg_data.info

jpeg_decode(jpeg_data) ==
    IF jpeg_data.decodes THEN [err |-> "none", pixels |-> jpeg_data.pixels]
    ELSE [err |-> "JpegDecoding", pixels |-> <<>>]

\* jpeg_decoder::PixelFormat
PixelFormats == {"L8", "L16", "RGB24", "CMYK32"}

\* PixelFormat::pixel_bytes
pixel_bytes(pixel_format) ==
    CASE pixel_format = "L8" -> 1
      [] pixel_format = "L16" -> 2
      [] pixel_format = "RGB24" -> 3
      [] pixel_format = "CMYK32" -> 4

\* the arms with CMYK pixels written as they are, four bytes and the alpha
merge_arm_cmyk(pixel_format) ==
    CASE pixel_format = "L8" ->
            [err |-> "none", color |-> "GrayscaleAlpha", depth |-> "Eight",
             pixel_values |-> 1, alpha_pushes |-> 1]
      [] pixel_format = "L16" ->
            [err |-> "none", color |-> "GrayscaleAlpha", depth |-> "Sixteen",
             pixel_values |-> 2, alpha_pushes |-> 2]
      [] pixel_format = "RGB24" ->
            [err |-> "none", color |-> "Rgba", depth |-> "Eight",
             pixel_values |-> 3, alpha_pushes |-> 1]
      [] pixel_format = "CMYK32" ->
            [err |-> "none", color |-> "Rgba", depth |-> "Eight",
             pixel_values |-> 4, alpha_pushes |-> 1]

\* the arms of `match image_info.pixel_format`: the colour type and the bit
\* depth set on the encoder, the values taken from pixels_iterator per pixel
\* and the number of times the alpha value is pushed; or the error returned
merge_arm(pixel_format) ==
    CASE pixel_format = "L8" ->
            [err |-> "none", color |-> "GrayscaleAlpha", depth |-> "Eight",
             pixel_values |-> 1, alpha_pushes |-> 1]
      [] pixel_format = "L16" ->
            [err |-> "none", color |-> "GrayscaleAlpha", depth |-> "Sixteen",
             pixel_values |-> 2, alpha_pushes |-> 2]
      [] pixel_format = "RGB24" ->
            [err |-> "none", color |-> "Rgba", depth |-> "Eight",
             pixel_values |-> 3, alpha_pushes |-> 1]
      [] pixel_format = "CMYK32" ->
            [err |-> "Cmyk", color |-> "", depth |-> "",
             pixel_values |-> 0, alpha_pushes |-> 0]

\* the pushes for one pixel: its values, then the alpha value
merge_pixel(values, alpha_value, arm) ==
    values \o [k \in 1..arm.alpha_pushes |-> alpha_value]

\* the row loops with an alpha iterator that starts anew in every row
RECURSIVE merge_rows_alpha_per_row(_, _, _, _, _, _, _)
merge_rows_alpha_per_row(pixels, alpha_pixels, done, height, width, arm, image) ==
    LET n == arm.pixel_values IN
    IF done = height THEN [err |-> "none", image |-> image]
    ELSE IF (done + 1) * width * n > Len(pixels) \/ width > Len(alpha_pixels)
    THEN [err |-> "ShortRead", image |-> image]
    ELSE merge_rows_alpha_per_row(pixels, alpha_pixels, done + 1, height, width, arm,
            Append(image, Flatten([c \in 1..width |->
                merge_pixel(SubSeq(pixels, (done * width + c - 1) * n + 1,
                                   (done * width + c) * n),
                            alpha_pixels[c], arm)])))

\* the row loops of the three arms (lines 152-164, 171-189, 196-214): per
\* pixel the next values of pixels_iterator and the next value of
\* alpha_iterator, ShortRead when either is at its end; a finished row goes
\* to write_image_data.  `done` rows have been written.
RECURSIVE merge_rows(_, _, _, _, _, _, _)
merge_rows(pixels, alpha_pixels, done, height, width, arm, image) ==
    LET n == arm.pixel_values IN
    IF done = height THEN [err |-> "none", image |-> image]
    ELSE IF (done + 1) * width * n > Len(pixels) \/ (done + 1) * width > Len(alpha_pixels)
    THEN [err |-> "ShortRead", image |-> image]
    ELSE merge_rows(pixels, alpha_pixels, done + 1, height, width, arm,
            Append(image, Flatten([c \in 1..width |->
                merge_pixel(SubSeq(pixels, (done * width + c - 1) * n + 1,
                                   (done * width + c) * n),
                            alpha_pixels[done * width + c], arm)])))

\* the Jpeg arm of Bitmap::write with alpha data (lines 122-217): the
\* result, the PNG header written by write_header and the rows handed to
\* write_image_data
jpeg_alpha_write(self) ==
    LET ad == inflate(self.data.alpha_data) IN
    IF ad.err # "none" THEN [err |-> ad.err, header |-> <<>>, image |-> <<>>]
    ELSE
    LET image_info == jpeg_info(self.data.jpeg_data)
        dec == jpeg_decode(self.data.jpeg_data)
    IN  IF dec.err # "none" THEN [err |-> dec.err, header |-> <<>>, image |-> <<>>]
        ELSE
        LET arm == merge_arm(image_info.pixel_format) IN
        IF arm.err # "none" THEN [err |-> arm.err, header |-> <<>>, image |-> <<>>]
        ELSE
        LET rows == merge_rows(dec.pixels, ad.bytes, 0, image_info.height,
                               image_info.width, arm, <<>>)
        IN  [err |-> rows.err,
             header |-> <<arm.color, image_info.width, image_info.height, arm.depth>>,
             image |-> rows.image]

\* Bitmap::write for every kind of the model: the files given as they are,
\* a JPEG with alpha data merged into a PNG, the lossless kinds through the
\* PNG encoder
Bitmap_write_any(self) ==
    IF self.data.kind \in {"Gif", "Png"}
    THEN [err |-> "none", header |-> <<>>, image |-> <<self.data.bytes>>]
    ELSE IF self.data.kind = "Jpeg"
    THEN (IF self.data.alpha_data # None
          THEN jpeg_alpha_write(self)
          ELSE [err |-> "none", header |-> <<>>, image |-> <<self.data.jpeg_data>>])
    ELSE Bitmap_write(self)

GIF_MAGIC == <<71, 73, 70, 56, 57, 97>>

JPEG_MAGIC == <<255, 216>>

PNG_MAGIC == <<137, 80, 78, 71, 13, 10, 26, 10>>

starts_with(bytes, magic) ==
    Len(bytes) >= Len(magic) /\ SubSeq(bytes, 1, Len(magic)) = magic

\* Bitmap::from_bytes(bytes, alpha_bytes): Some(bitmap) or None; `parses`
\* is the answer of the image library to the file's header
from_bytes(img, alpha_bytes) ==
    IF starts_with(img.bytes, GIF_MAGIC)
    THEN (IF img.parses
          THEN [width |-> img.width, height |-> img.height,
                data |-> [kind |-> "Gif", bytes |-> img.bytes]]
          ELSE None)
    ELSE IF starts_with(img.bytes, PNG_MAGIC)
    THEN (IF img.parses
          THEN [width |-> img.width, height |-> img.height,
                data |-> [kind |-> "Png", bytes |-> img.bytes]]
          ELSE None)
    ELSE IF starts_with(img.bytes, JPEG_MAGIC)
    THEN (IF img.parses
          THEN [width |-> img.width, height |-> img.height,
                data |-> [kind |-> "Jpeg", jpeg_data |-> img.bytes, alpha_data |-> alpha_bytes]]
          ELSE [panic |-> "unwrap on None"])
    ELSE None

\* the tag has been handled: on to the next one, or the panic
TagDone(msg) ==
    /\ p_pc' = IF msg = "" THEN "tags" ELSE "panicked"
    /\ p_panic' = msg
    /\ p_count' = p_count + 1

InLoop == p_pc = "tags" /\ p_count < MaxTags

\* Tag::DefineBinaryData(bd)
tag_DefineBinaryData(bd) ==
    /\ InLoop
    /\ files' = WriteFile(files, FileName(ToString(bd.id), "bin"), bd.data)
    /\ TagDone("")
    /\ UNCHANGED <<stream_sound, id_to_bitmap, p_blocks, p_tags>>
    /\ UNCHANGED <<a_vars, b_vars>>

\* Tag::DefineBitsJpeg3(j3) with empty alpha data
tag_DefineBitsJpeg3(j3) ==
    /\ InLoop
    /\ LET alpha_data == None
           bmp == from_bytes(j3.data, alpha_data)
       IN  IF bmp = None \/ "panic" \in DOMAIN bmp
           THEN /\ TagDone("unwrap on None from from_bytes")
                /\ UNCHANGED id_to_bitmap
           ELSE /\ TagDone("")
                /\ id_to_bitmap' = Insert(id_to_bitmap, j3.id, bmp)
    /\ UNCHANGED <<stream_sound, files, p_blocks, p_tags>>
    /\ UNCHANGED <<a_vars, b_vars>>

\* Tag::DefineBitsLossless(bmap)
tag_DefineBitsLossless(bmap) ==
    /\ InLoop
    /\ LET res == define_bits_lossless(bmap) IN
       /\ TagDone(res.panic)
       /\ id_to_bitmap' = IF res.panic = "" THEN Insert(id_to_bitmap, bmap.id, res.bitmap)
                          ELSE id_to_bitmap
    /\ UNCHANGED <<stream_sound, files, p_blocks, p_tags>>
    /\ UNCHANGED <<a_vars, b_vars>>

\* the tags with an empty arm: DefineButton2, ShowFrame, StartSound, ...
tag_ignored ==
    /\ InLoop
    /\ TagDone("")
    /\ UNCHANGED <<stream_sound, id_to_bitmap, files, p_blocks, p_tags>>
    /\ UNCHANGED <<a_vars, b_vars>>

\* Tag::SoundStreamBlock(ssb)
tag_SoundStreamBlock(ssb) ==
    /\ InLoop
    /\ IF stream_sound # None
       THEN LET res == append_data(stream_sound, ssb) IN
            /\ stream_sound' = res.sound
            /\ TagDone(res.panic)
            /\ p_blocks' = IF res.panic = "" THEN Append(p_blocks, ssb) ELSE p_blocks
       ELSE /\ TagDone("")
            /\ UNCHANGED <<stream_sound, p_blocks>>
    /\ p_tags' = Append(p_tags, [tag |-> "SoundStreamBlock", data |-> ssb])
    /\ UNCHANGED <<id_to_bitmap, files>>
    /\ UNCHANGED <<a_vars, b_vars>>

\* Tag::SoundStreamHead(ssh)
tag_SoundStreamHead(ssh) ==
    /\ InLoop
    /\ stream_sound' = [format |-> ssh.stream_format, data |-> <<>>]
    /\ p_blocks' = <<>>
    /\ p_tags' = Append(p_tags, [tag |-> "SoundStreamHead", stream_format |-> ssh.stream_format])
    /\ TagDone("")
    /\ UNCHANGED <<id_to_bitmap, files>>
    /\ UNCHANGED <<a_vars, b_vars>>

\* Tag::SoundStreamHead2(ssh)
tag_SoundStreamHead2(ssh) ==
    /\ InLoop
    /\ stream_sound' = [format |-> ssh.stream_format, data |-> <<>>]
    /\ p_blocks' = <<>>
    /\ p_tags' = Append(p_tags, [tag |-> "SoundStreamHead2", stream_format |-> ssh.stream_format])
    /\ TagDone("")
    /\ UNCHANGED <<id_to_bitmap, files>>
    /\ UNCHANGED <<a_vars, b_vars>>

\* other => panic!("unhandled block")
tag_other ==
    /\ InLoop
    /\ TagDone("unhandled block")
    /\ UNCHANGED <<stream_sound, id_to_bitmap, files, p_blocks, p_tags>>
    /\ UNCHANGED <<a_vars, b_vars>>

\* the stream file written without the test of ssnd.data.len()
write_stream_empty(fs) ==
    IF stream_sound # None
    THEN LET res == Sound_write(stream_sound) IN
         [panic |-> res.panic,
          files |-> WriteFile(fs, FileName("stream", Sound_extension(stream_sound)), res.bytes)]
    ELSE [panic |-> "", files |-> fs]

\* lines 324-332: the stream file
write_stream(fs) ==
    IF stream_sound # None /\ Len(stream_sound.data) > 0
    THEN LET res == Sound_write(stream_sound) IN
         [panic |-> res.panic,
          files |-> WriteFile(fs, FileName("stream", Sound_extension(stream_sound)), res.bytes)]
    ELSE [panic |-> "", files |-> fs]

\* lines 333-339: the bitmap files, in the order the map yields them; a
\* failing write has left its file with what it had written before
RECURSIVE write_bitmaps(_, _)
write_bitmaps(order, fs) ==
    IF order = <<>> THEN [panic |-> "", files |-> fs]
    ELSE LET i == Head(order)
             bitmap == id_to_bitmap[i]
             res == Bitmap_write_any(bitmap)
             fs2 == WriteFile(fs, FileName(ToString(i), Bitmap_extension(bitmap)),
                              [header |-> res.header, image |-> res.image])
         IN  IF res.err # "none"
             THEN [panic |-> "failed to write bitmap file", files |-> fs2]
             ELSE write_bitmaps(Tail(order), fs2)

\* the orders in which a HashMap's iterator may yield the ids
Orders(ids) ==
    {o \in [1..Cardinality(ids) -> ids] : \A i, j \in DOMAIN o : i # j => o[i] # o[j]}

\* the end of the tags: lines 324-339
finish ==
    /\ p_pc = "tags"
    /\ LET st == write_stream(files) IN
       IF st.panic # ""
       THEN /\ files' = st.files
            /\ p_pc' = "panicked"
            /\ p_panic' = st.panic
       ELSE \E order \in Orders(DOMAIN id_to_bitmap) :
               LET res == write_bitmaps(order, st.files) IN
               /\ files' = res.files
               /\ p_pc' = IF res.panic = "" THEN "done" ELSE "panicked"
               /\ p_panic' = res.panic
    /\ UNCHANGED <<stream_sound, id_to_bitmap, p_count, p_blocks, p_tags>>
    /\ UNCHANGED <<a_vars, b_vars>>

(***************************************************************************)
(* The tags the model feeds to process_tags.                               *)
(***************************************************************************)
StreamFormats ==
    {[compression |-> "Adpcm", sample_rate |-> 22050, is_stereo |-> FALSE, is_16_bit |-> TRUE],
     [compression |-> "Adpcm", sample_rate |-> 11025, is_stereo |-> TRUE, is_16_bit |-> FALSE],
     [compression |-> "Uncompressed", sample_rate |-> 5512, is_stereo |-> TRUE, is_16_bit |-> TRUE],
     [compression |-> "Mp3", sample_rate |-> 44100, is_stereo |-> FALSE, is_16_bit |-> TRUE]}

\* two well-formed blocks, a block shorter than a header, a block with a
\* bit-width field of 6
StreamBlocks ==
    {AdpcmBlock(4, FALSE, <<0, 0>>, <<0, 0>>, <<"up", "down">>, 5),
     AdpcmBlock(2, TRUE, <<32767, 63>>, <<-32768, 5>>, <<"up", "up", "down", "small">>, 7),
     AdpcmBlock(3, FALSE, <<-32768, 5>>, <<0, 0>>, <<>>, 2),
     AdpcmBlock(6, FALSE, <<0, 0>>, <<0, 0>>, <<"up">>, 7)}

BinaryDatas == {[id |-> 3, data |-> <<7>>]}

\* an indexed bitmap, an indexed bitmap without its last row, an Rgb15 bitmap
LosslessTags ==
    {[id |-> 1, format |-> "ColorMap8", version |-> 1, num_colors |-> 0,
      width |-> 3, height |-> 2, data |-> Ramp(1, 11)],
     [id |-> 1, format |-> "ColorMap8", version |-> 1, num_colors |-> 0,
      width |-> 3, height |-> 2, data |-> Ramp(1, 7)],
     [id |-> 2, format |-> "Rgb15", version |-> 1, num_colors |-> 0,
      width |-> 2, height |-> 1, data |-> Ramp(1, 4)]}

\* a PNG file, a file of no known kind
Jpeg3Tags ==
    {[id |-> 2, data |-> [bytes |-> PNG_MAGIC \o <<0>>, parses |-> TRUE, width |-> 1, height |-> 1]],
     [id |-> 2, data |-> [bytes |-> <<0, 1>>, parses |-> FALSE, width |-> 0, height |-> 0]]}

Init ==
    /\ AppendIdle
    /\ BitmapIdle
    /\ stream_sound = None
    /\ id_to_bitmap = <<>>
    /\ files = <<>>
    /\ p_pc = "tags"
    /\ p_panic = ""
    /\ p_count = 0
    /\ p_blocks = <<>>
    /\ p_tags = <<>>

Next ==
    \/ \E bd \in BinaryDatas : tag_DefineBinaryData(bd)
    \/ \E j3 \in Jpeg3Tags : tag_DefineBitsJpeg3(j3)
    \/ \E bmap \in LosslessTags : tag_DefineBitsLossless(bmap)
    \/ tag_ignored
    \/ \E ssb \in StreamBlocks : tag_SoundStreamBlock(ssb)
    \/ \E fmt \in StreamFormats : tag_SoundStreamHead([stream_format |-> fmt])
    \/ \E fmt \in StreamFormats : tag_SoundStreamHead2([stream_format |-> fmt])
    \/ tag_other
    \/ finish

Spec == Init /\ [][Next]_vars

(***************************************************************************)
(* process_tags over DefineSound tags (SpecSound): each sound is written   *)
(* to a file of its own when its tag is met.                               *)
(***************************************************************************)
\* Tag::DefineSound(snd) (lines 32-42): the file is created, then written
tag_DefineSound(snd) ==
    /\ InLoop
    /\ LET sound == [format |-> snd.format, data |-> snd.data]
           res == Sound_write(sound)
       IN  /\ files' = WriteFile(files, FileName(ToString(snd.id), Sound_extension(sound)),
                                 res.bytes)
           /\ TagDone(res.panic)
    /\ UNCHANGED <<stream_sound, id_to_bitmap, p_blocks, p_tags>>
    /\ UNCHANGED <<a_vars, b_vars>>

\* swf::AudioCompression, the variants sound.rs names and one it does not
Compressions == {"Adpcm", "Uncompressed", "UncompressedUnknownEndian", "Mp3", "Nellymoser"}

\* the DefineSound tags the model feeds to process_tags
DefineSounds ==
    {[id |-> 1,
      format |-> [compression |-> cp, sample_rate |-> 11025, is_stereo |-> st, is_16_bit |-> sz],
      data |-> data] :
        cp \in Compressions, st \in BOOLEAN, sz \in BOOLEAN, data \in {<<>>, <<1, 2, 3, 4>>}}

NextSound ==
    \/ \E snd \in DefineSounds : tag_DefineSound(snd)
    \/ finish

SpecSound == Init /\ [][NextSound]_vars

(***************************************************************************)
(* Bitmap::write on a bitmap of its own: a JPEG with alpha data            *)
(* (SpecMerge), an Rgb15 bitmap of one pixel (SpecPixel).                  *)
(***************************************************************************)
\* process_tags writes a JPEG bitmap (lines 333-339)
jpeg_write ==
    /\ b_pc = "stored"
    /\ b_bitmap.data.kind = "Jpeg"
    /\ b_result' = Bitmap_write_any(b_bitmap)
    /\ b_pc' = IF b_result'.err = "none" THEN "written" ELSE "failed"
    /\ UNCHANGED <<b_rec, b_bitmap, b_panic>>
    /\ UNCHANGED <<a_vars, p_vars>>

\* a JPEG file of the given frame, its pixels bytes that differ from place
\* to place
JpegFile(pixel_format, width, height, base, decodes) ==
    [info |-> [width |-> width, height |-> height, pixel_format |-> pixel_format],
     decodes |-> decodes,
     pixels |-> Ramp(base, width * height * pixel_bytes(pixel_format))]

\* the alpha data of a DefineBitsJpeg3 tag: a zlib stream of len bytes, or
\* bytes that are no zlib stream
AlphaData(base, len, intact) == [intact |-> intact, inflated |-> Ramp(base, len)]

\* the alpha plane is up to MaxExtra bytes longer than the image has pixels
MaxExtra == 2

InitMerge ==
    /\ AppendIdle
    /\ TagsIdle
    /\ b_rec = [format |-> "none"]
    /\ b_pc = "stored"
    /\ b_result = NoResult
    /\ b_panic = ""
    /\ \E pixel_format \in PixelFormats, width \in 1..MaxWidth, height \in 1..MaxHeight,
          base \in {1, 128}, abase \in {255, 100}, decodes \in BOOLEAN, intact \in BOOLEAN :
          \E len \in 0..(width * height + MaxExtra) :
             b_bitmap = [width |-> width, height |-> height,
                         data |-> [kind |-> "Jpeg",
                                   jpeg_data |-> JpegFile(pixel_format, width, height,
                                                          base, decodes),
                                   alpha_data |-> AlphaData(abase, len, intact)]]

NextMerge == jpeg_write

SpecMerge == InitMerge /\ [][NextMerge]_vars

InitPixel ==
    /\ AppendIdle
    /\ TagsIdle
    /\ b_rec = [format |-> "none"]
    /\ b_pc = "stored"
    /\ b_result = NoResult
    /\ b_panic = ""
    /\ \E top_byte \in 0..255, bottom_byte \in 0..255 :
          b_bitmap = [width |-> 1, height |-> 1,
                      data |-> [kind |-> "Rgb15", image_data |-> <<top_byte, bottom_byte>>]]

NextPixel == lossless_write

SpecPixel == InitPixel /\ [][NextPixel]_vars

(***************************************************************************)
(* Claims about the lossless bitmaps, under SpecBitmap.                    *)
(***************************************************************************)
\* bytes per pixel of the record's format as stored
StoredBpp(bmap) ==
    IF bmap.format = "ColorMap8" THEN 1
    ELSE IF bmap.format = "Rgb15" THEN 2
    ELSE IF bmap.version = 2 THEN 4 ELSE 3

\* a row of the payload: its pixel bytes padded to a 4-byte boundary
Stride(bmap) == ((StoredBpp(bmap) * bmap.width + 3) \div 4) * 4

PaletteLen(bmap) ==
    IF bmap.format = "ColorMap8"
    THEN (IF bmap.version = 2 THEN 4 ELSE 3) * (bmap.num_colors + 1)
    ELSE 0

\* the padded size computed from width, height and format
PaddedSize(bmap) == PaletteLen(bmap) + bmap.height * Stride(bmap)

ValidCombo(bmap) == ~(bmap.format = "Rgb15" /\ bmap.version = 2)

\* C7: a payload shorter than the padded size of its format makes the
\* reconstruction fail with the ShortRead error value and never panics.
C7_ShortReadNotPanic ==
    (b_pc \notin {"idle", "tag"} /\ ValidCombo(b_rec)
        /\ Len(b_rec.data) < PaddedSize(b_rec)) =>
        /\ b_pc \notin {"panicked", "written"}
        /\ b_pc = "failed" => b_result.err = "ShortRead"
        /\ b_pc = "stored" => b_bitmap.data.kind \in WritableKinds

\* the image the Rgb15 record stands for: pixel (r, c) from the two bytes at
\* r * Stride + 2 * c
ExpectedRgb15(bmap) ==
    [r \in 1..bmap.height |->
        Flatten([c \in 1..bmap.width |->
            rgb15_pixel(bmap.data[(r - 1) * Stride(bmap) + 2 * (c - 1) + 1],
                        bmap.data[(r - 1) * Stride(bmap) + 2 * (c - 1) + 2])])]

\* C8: an Rgb15 record with its padded payload is written with pixel (r, c)
\* taken from the two payload bytes at r*ceil(2*width/4)*4 + 2*c.
C8_Rgb15Rows ==
    (b_pc \notin {"idle", "tag", "stored"} /\ b_rec.format = "Rgb15" /\ b_rec.version # 2
        /\ Len(b_rec.data) >= PaddedSize(b_rec)) =>
        /\ b_pc = "written"
        /\ b_result.image = ExpectedRgb15(b_rec)

\* the image the Rgb24 record stands for: pixel (r, c) the three bytes at
\* r * Stride + 3 * c
ExpectedRgb24(bmap) ==
    [r \in 1..bmap.height |->
        SubSeq(bmap.data, (r - 1) * Stride(bmap) + 1, (r - 1) * Stride(bmap) + 3 * bmap.width)]

\* C9: an Rgb24 record with its padded payload is written as width*height
\* RGB triples, pixel (r, c) the three payload bytes at
\* r*ceil(3*width/4)*4 + 3*c.
C9_Rgb24Rows ==
    (b_pc \notin {"idle", "tag", "stored"} /\ b_rec.format = "Rgb32" /\ b_rec.version # 2
        /\ Len(b_rec.data) >= PaddedSize(b_rec)) =>
        /\ b_pc = "written"
        /\ b_result.image = ExpectedRgb24(b_rec)
        /\ Len(Flatten(b_result.image)) = 3 * b_rec.width * b_rec.height

\* C10: the index buffer built from an Indexed8 record has width*height
\* bytes, index (r, c) is the image-data byte at r*(width + (4 - width%4)%4) + c,
\* and the padding bytes of every row have been consumed.
C10_IndexedRows ==
    (b_rec.format = "ColorMap8" /\ b_pc \in {"stored", "written", "failed"}) =>
        LET w == b_rec.width
            h == b_rec.height
            row == w + ((4 - (w % 4)) % 4)
            image_data_padded == SubSeq(b_rec.data, PaletteLen(b_rec) + 1, Len(b_rec.data))
        IN  /\ Len(b_bitmap.data.image_data) = w * h
            /\ Len(image_data_padded) >= h * row
            /\ \A r \in 0..(h - 1) : \A c \in 0..(w - 1) :
                  b_bitmap.data.image_data[r * w + c + 1] = image_data_padded[r * row + c + 1]

\* an index buffer of two rows has been built from rows with padding
C10_Witness ==
    /\ b_rec.format = "ColorMap8"
    /\ b_pc = "stored"
    /\ b_rec.width % 4 # 0
    /\ b_rec.height >= 2
    /\ b_bitmap.data.image_data[b_rec.width + 1] # b_rec.data[PaletteLen(b_rec) + b_rec.width + 1]


\* C18: for an Rgba32 record the reconstructed pixel buffer is the payload
\* copied through unchanged, without padding removal, and it has exactly
\* width*height*4 bytes.
C18_Rgba32Passthrough ==
    (b_rec.format = "Rgb32" /\ b_rec.version = 2 /\ b_pc \notin {"idle", "tag"}) =>
        /\ b_bitmap.data.kind = "Rgba32"
        /\ b_bitmap.data.image_data = b_rec.data
        /\ Len(b_bitmap.data.image_data) = b_rec.width * b_rec.height * 4

\* C20: for an Indexed8 record with declared num_colors n and component
\* count k (3, or 4 with alpha) the palette is built from the first k*(n+1)
\* bytes of the inflated data, has n+1 entries in stored order with the
\* components in the order R, G, B(, A), and the index data starts right
\* after those bytes.
C20_Palette ==
    (b_rec.format = "ColorMap8" /\ b_pc \in {"stored", "written", "failed"}) =>
        LET n == b_rec.num_colors
            k == IF b_rec.version = 2 THEN 4 ELSE 3
            palette == b_bitmap.data.palette
        IN  /\ b_bitmap.data.kind = IF k = 4 THEN "ColorMappedAlpha" ELSE "ColorMapped"
            /\ Len(palette) = n + 1
            /\ \A i \in 1..(n + 1) :
                  /\ Len(palette[i]) = k
                  /\ \A c \in 1..k : palette[i][c] = b_rec.data[k * (i - 1) + c]
            /\ b_bitmap.data.image_data[1] = b_rec.data[k * (n + 1) + 1]

\* a palette of two RGBA entries has been built
C20_Witness ==
    /\ b_rec.format = "ColorMap8"
    /\ b_rec.version = 2
    /\ b_rec.num_colors = 1
    /\ b_pc = "stored"
    /\ Len(b_bitmap.data.palette) = 2
    /\ b_bitmap.data.palette[2][4] = b_rec.data[8]
    /\ b_bitmap.data.image_data[1] = b_rec.data[9]

(***************************************************************************)
(* Claims about the alpha merge of Bitmap::write, under SpecMerge.         *)
(***************************************************************************)
\* Bitmap::write has returned for a JPEG with alpha data
MergeReturned ==
    /\ b_pc \in {"written", "failed"}
    /\ b_bitmap.data.kind = "Jpeg"
    /\ b_bitmap.data.alpha_data # None

\* the image and the alpha plane of the merge
MergeInfo == b_bitmap.data.jpeg_data.info

MergePixels == b_bitmap.data.jpeg_data.pixels

AlphaPlane == b_bitmap.data.alpha_data.inflated

\* both inputs of the merge have been decompressed
MergeInputsDecoded ==
    b_bitmap.data.alpha_data.intact /\ b_bitmap.data.jpeg_data.decodes

\* C11: the alpha merge succeeds only when the alpha plane has exactly
\* width*height bytes; an alpha plane with fewer bytes and an alpha plane
\* with more bytes both make it fail with ShortRead.
C11_AlphaExactLength ==
    (MergeReturned /\ MergeInputsDecoded /\ MergeInfo.pixel_format # "CMYK32") =>
        /\ b_result.err = "none" => Len(AlphaPlane) = MergeInfo.width * MergeInfo.height
        /\ Len(AlphaPlane) # MergeInfo.width * MergeInfo.height => b_result.err = "ShortRead"

\* C12: whenever Bitmap::write returns an error, no byte has been written
\* to the caller's writer: neither the PNG header nor a row of the image.
C12_FailureAtomic ==
    (b_pc = "failed" /\ b_bitmap.data.kind = "Jpeg") =>
        /\ b_result.header = <<>>
        /\ b_result.image = <<>>

\* C16: the merge interleaves per pixel in row-major order: [gray, alpha]
\* for 8-bit grayscale, [gray_msb, gray_lsb, alpha, alpha] for 16-bit
\* grayscale, [r, g, b, alpha] for RGB, pixel i of the image with byte i of
\* the alpha plane; the 1x1 grayscale image [0x80] with the alpha plane
\* [0xFF] gives [0x80, 0xFF].
C16_MergeInterleaves ==
    (MergeReturned /\ b_pc = "written") =>
        LET w == MergeInfo.width
            h == MergeInfo.height
            f == MergeInfo.pixel_format
            px == MergePixels
            al == AlphaPlane
        IN  /\ f \in {"L8", "L16", "RGB24"}
            /\ Len(al) >= w * h
            /\ Len(px) = w * h * (IF f = "L8" THEN 1 ELSE IF f = "L16" THEN 2 ELSE 3)
            /\ Len(b_result.image) = h
            /\ \A r \in 1..h :
                  /\ Len(b_result.image[r]) = w * (IF f = "L8" THEN 2 ELSE 4)
                  /\ \A c \in 1..w :
                        LET i == (r - 1) * w + c
                            row == b_result.image[r]
                        IN  CASE f = "L8" ->
                                    /\ row[2 * c - 1] = px[i]
                                    /\ row[2 * c] = al[i]
                              [] f = "L16" ->
                                    /\ row[4 * c - 3] = px[2 * i - 1]
                                    /\ row[4 * c - 2] = px[2 * i]
                                    /\ row[4 * c - 1] = al[i]
                                    /\ row[4 * c] = al[i]
                              [] f = "RGB24" ->
                                    /\ row[4 * c - 3] = px[3 * i - 2]
                                    /\ row[4 * c - 2] = px[3 * i - 1]
                                    /\ row[4 * c - 1] = px[3 * i]
                                    /\ row[4 * c] = al[i]
            /\ (f = "L8" /\ w = 1 /\ h = 1 /\ px = <<128>> /\ al = <<255>>) =>
                  b_result.image = << <<128, 255>> >>

\* the 1x1 grayscale image [0x80] has been merged with the alpha plane [0xFF]
C16_Witness ==
    /\ MergeReturned
    /\ b_pc = "written"
    /\ MergeInfo.pixel_format = "L8"
    /\ MergePixels = <<128>>
    /\ AlphaPlane = <<255>>
    /\ b_result.image = << <<128, 255>> >>

\* C19: an image whose decoded pixel format is CMYK makes the merge fail
\* with the Cmyk error; nothing of it is converted and nothing is written.
C19_CmykFails ==
    (MergeReturned /\ MergeInfo.pixel_format = "CMYK32") =>
        /\ b_pc = "failed"
        /\ b_result.header = <<>>
        /\ b_result.image = <<>>
        /\ MergeInputsDecoded => b_result.err = "Cmyk"

\* a decoded CMYK image with an alpha plane of its size has been refused
C19_Witness ==
    /\ MergeReturned
    /\ MergeInputsDecoded
    /\ MergeInfo.pixel_format = "CMYK32"
    /\ Len(AlphaPlane) = MergeInfo.width * MergeInfo.height
    /\ b_result.err = "Cmyk"

(***************************************************************************)
(* Claims about the Rgb15 pixel of Bitmap::write, under SpecPixel.         *)
(***************************************************************************)
\* Bitmap::write has written the one pixel of an Rgb15 bitmap
PixelWritten ==
    /\ b_pc = "written"
    /\ b_bitmap.data.kind = "Rgb15"
    /\ Len(b_bitmap.data.image_data) = 2

TopByte == b_bitmap.data.image_data[1]

BottomByte == b_bitmap.data.image_data[2]

\* the channels of the layout 0RRRRRGG GGGBBBBB, from the two bytes
Red5 == (TopByte \div 4) % 32

Green5 == (TopByte % 4) * 8 + (BottomByte \div 32)

Blue5 == BottomByte % 32

Channels5 == <<Red5, Green5, Blue5>>

\* the three bytes handed to the encoder
OutPixel == b_result.image[1]

\* v * 255 / 31 rounded to the nearest integer
RoundScale(v) == (2 * 255 * v + 31) \div 62

\* C13: every 5-bit channel value v is widened to round(v * 255 / 31).
C13_ScaleRounds ==
    PixelWritten => \A k \in 1..3 : OutPixel[k] = RoundScale(Channels5[k])

\* C13 as amended: every 5-bit channel value v is widened to
\* floor(v * 255 / 31), the quotient truncated.
C13_ScaleTruncates ==
    PixelWritten =>
        \A k \in 1..3 :
            /\ 31 * OutPixel[k] <= 255 * Channels5[k]
            /\ 255 * Channels5[k] < 31 * (OutPixel[k] + 1)

\* the channel value 3 (24.68 before truncation) has been widened to 24
C13_Witness ==
    /\ PixelWritten
    /\ Blue5 = 3
    /\ OutPixel[3] = 24

\* C14: the scaling is monotonic over 0..31 and covers the output range:
\* 0 gives 0 and 31 gives 255.
C14_ScaleMonotonic ==
    PixelWritten =>
        \A k \in 1..3 :
            /\ Channels5[k] = 0 => OutPixel[k] = 0
            /\ Channels5[k] = 31 => OutPixel[k] = 255
            /\ \A v \in 0..31 :
                  /\ v <= Channels5[k] => scale_5_to_8(v) <= OutPixel[k]
                  /\ Channels5[k] <= v => OutPixel[k] <= scale_5_to_8(v)

\* a pixel with a channel of 0 and a channel of 31 has been written
C14_Witness ==
    /\ PixelWritten
    /\ Red5 = 0
    /\ Blue5 = 31
    /\ OutPixel[1] = 0
    /\ OutPixel[3] = 255

\* C15: a pixel is decoded from a big-endian word, first byte high, with
\* red = bits 14-10, green = bits 9-5, blue = bits 4-0; bit 15 has no
\* influence: the word that differs only in bit 15 gives the same triple.
C15_Rgb15Layout ==
    PixelWritten =>
        /\ OutPixel = <<scale_5_to_8(Red5), scale_5_to_8(Green5), scale_5_to_8(Blue5)>>
        /\ OutPixel = rgb15_pixel((TopByte + 128) % 256, BottomByte)

\* a word with bit 15 set and three different channels has been decoded
C15_Witness ==
    /\ PixelWritten
    /\ TopByte >= 128
    /\ Red5 # Green5
    /\ Green5 # Blue5
    /\ Red5 # Blue5
    /\ OutPixel[1] # OutPixel[2]
    /\ OutPixel[2] # OutPixel[3]

(***************************************************************************)
(* Claims about the ADPCM decoder and append_data, under SpecAppend.       *)
(***************************************************************************)
IsAdpcm == a_format.compression = "Adpcm"

Constructed == IsAdpcm /\ a_reader # NoReader

\* bits of the block behind the header
CodeBits == BitLen(a_block) - HeaderBits(a_format.is_stereo)

\* C1: after construction and after every decode step, each channel's
\* predictor is within [-32768, 32767] and its step_index within
\* [0, table_size - 1] of the reader's bit width, and the bit width is one of
\* 2, 3, 4, 5 with table sizes 4, 8, 16, 32.
C1_StateInRange ==
    Constructed =>
        /\ a_reader.bit_width \in BitWidths
        /\ table_size(a_reader.bit_width) = CASE a_reader.bit_width = 2 -> 4
                                              [] a_reader.bit_width = 3 -> 8
                                              [] a_reader.bit_width = 4 -> 16
                                              [] a_reader.bit_width = 5 -> 32
        /\ \A c \in DOMAIN a_reader.channels :
              /\ a_reader.channels[c].predictor \in -32768..32767
              /\ a_reader.channels[c].step_index \in 0..(table_size(a_reader.bit_width) - 1)
        /\ \A i \in DOMAIN a_frames : \A c \in DOMAIN a_frames[i] :
              a_frames[i][c] \in -32768..32767

\* a step whose unclamped result leaves both ranges has been taken
C1_Witness ==
    /\ Constructed
    /\ Len(a_frames) >= 2
    /\ a_reader.bit_width = 5
    /\ a_reader.channels[1].predictor = 32767
    /\ a_reader.channels[1].step_index = 31
    /\ decode_step_unclamped(a_reader.channels[1], 5, 15).predictor > 32767
    /\ decode_step_unclamped(a_reader.channels[1], 5, 15).step_index > 31

\* C2: the frame sequence is finite and ends exactly at the first frame for
\* which fewer than bit_width bits remain for some channel: all complete
\* frames are yielded and appended, no partial frame is, the trailing bits
\* are dropped, and the end is not an error (no panic after construction).
C2_EndsAtFirstIncompleteFrame ==
    Constructed =>
        LET n == Channels(a_format.is_stereo)
            full == CodeBits \div (n * a_reader.bit_width)
        IN  /\ a_pc \in {"loop", "done"}
            /\ Len(a_frames) <= full
            /\ a_reader.pos = HeaderBits(a_format.is_stereo)
                              + Len(a_frames) * n * a_reader.bit_width
            /\ \A i \in DOMAIN a_frames : Len(a_frames[i]) = n
            /\ Len(a_data) = 2 * n * Len(a_frames)
            /\ a_reader.ended <=> a_pc = "done"
            /\ a_pc = "done" =>
                  /\ Len(a_frames) = full
                  /\ Remaining(a_block, a_reader) < n * a_reader.bit_width

\* the sequence has ended after two frames with trailing bits left over
C2_Witness ==
    /\ Constructed
    /\ a_pc = "done"
    /\ Len(a_frames) >= 2
    /\ Remaining(a_block, a_reader) > 0

\* C3: construction fails (InvalidHeader, which append_data's expect() turns
\* into a panic) exactly when the block is shorter than the header of its
\* channels or its bit-width field is outside {2,3,4,5}; otherwise it succeeds.
C3_InvalidHeaderExactly ==
    (IsAdpcm /\ a_pc # "start") =>
        LET short == BitLen(a_block) < HeaderBits(a_format.is_stereo)
            badWidth == ~short /\ ReadBits(a_block, 0, BitWidthFieldBits) \notin BitWidths
        IN  /\ (a_pc = "panicked") <=> (short \/ badWidth)
            /\ (a_reader # NoReader) <=> ~(short \/ badWidth)
            /\ AdpcmDecoder_new(a_block, a_format.is_stereo).err =
                  (IF a_pc = "panicked" THEN "InvalidHeader" ELSE "none")

\* a stereo block long enough for one channel header only has been refused
C3_Witness ==
    /\ IsAdpcm
    /\ a_format.is_stereo
    /\ a_pc = "panicked"
    /\ BitLen(a_block) >= HeaderBits(FALSE)
    /\ ReadBits(a_block, 0, BitWidthFieldBits) \in BitWidths

\* a block with a complete header and a bit-width field of 6 has been refused
C3_WitnessBadWidth ==
    /\ IsAdpcm
    /\ a_pc = "panicked"
    /\ BitLen(a_block) >= HeaderBits(a_format.is_stereo)
    /\ ReadBits(a_block, 0, BitWidthFieldBits) = 6

\* the code of channel c (1 = left) in frame k (from 1) of the block
CodeAt(c, k) ==
    ReadBits(a_block,
             HeaderBits(a_format.is_stereo)
                + ((k - 1) * Channels(a_format.is_stereo) + (c - 1)) * a_reader.bit_width,
             a_reader.bit_width)

\* channel c decoded on its own: its seed, then its codes of frames 1..k
RECURSIVE ChannelAlone(_, _)
ChannelAlone(c, k) ==
    IF k = 0 THEN seed_channel(a_block, c - 1, a_reader.bit_width)
    ELSE decode_step(ChannelAlone(c, k - 1), a_reader.bit_width, CodeAt(c, k))

\* C4: a stereo frame consumes a left code and then a right code, each
\* channel keeps its own state, the samples are appended left before right,
\* and the number of frames is min(left codes available, right codes
\* available): a left code without its right code gives no frame.
C4_StereoFrames ==
    (Constructed /\ a_format.is_stereo) =>
        LET w == a_reader.bit_width
            left_frames_available == (CodeBits + w) \div (2 * w)
            right_frames_available == CodeBits \div (2 * w)
        IN  /\ Len(a_frames) <= Min(left_frames_available, right_frames_available)
            /\ a_pc = "done" =>
                  Len(a_frames) = Min(left_frames_available, right_frames_available)
            /\ \A k \in DOMAIN a_frames :
                  /\ a_frames[k] = <<ChannelAlone(1, k).predictor, ChannelAlone(2, k).predictor>>
                  /\ SubSeq(a_data, 4 * k - 3, 4 * k) =
                        to_le_bytes(a_frames[k][1]) \o to_le_bytes(a_frames[k][2])
            /\ \A c \in 1..2 : a_reader.channels[c] = ChannelAlone(c, Len(a_frames))

\* a stereo block has ended with a left code whose right code is missing,
\* after frames in which the two channels gave different samples
C4_Witness ==
    /\ Constructed
    /\ a_format.is_stereo
    /\ a_pc = "done"
    /\ Len(a_frames) >= 1
    /\ a_frames[1][1] # a_frames[1][2]
    /\ (CodeBits + a_reader.bit_width) \div (2 * a_reader.bit_width)
          > CodeBits \div (2 * a_reader.bit_width)

(***************************************************************************)
(* Claims about process_tags, under Spec.                                  *)
(***************************************************************************)
\* a block decoded on its own: appended to an empty sound of the format
DecodedAlone(format, block) == append_data([format |-> format, data |-> <<>>], block).sound.data

\* C5: ADPCM channel state is not carried across blocks: the accumulated
\* sample bytes are the concatenation of every appended block decoded on
\* its own from its own header seed.
C5_BlocksIndependent ==
    (stream_sound # None /\ p_pc # "idle") =>
        (stream_sound.format.compression = "Adpcm" =>
            stream_sound.data =
                Flatten([k \in 1..Len(p_blocks) |->
                            DecodedAlone(stream_sound.format, p_blocks[k])]))

\* two blocks that each give frames have been appended to an ADPCM sound,
\* the second starting from a seed that is not the first's last sample
C5_Witness ==
    /\ stream_sound # None
    /\ stream_sound.format.compression = "Adpcm"
    /\ Len(p_blocks) >= 2
    /\ Len(DecodedAlone(stream_sound.format, p_blocks[1])) >= 2
    /\ Len(DecodedAlone(stream_sound.format, p_blocks[2])) >= 2
    /\ Len(stream_sound.data) > Len(DecodedAlone(stream_sound.format, p_blocks[1]))
    /\ append_data_carry(stream_sound, p_blocks[2]).sound.data
          # append_data(stream_sound, p_blocks[2]).sound.data

\* the panics a decode failure ends process_tags with: InvalidHeader of the
\* ADPCM reader, a payload shorter than its rows or its palette, ShortRead
\* of Bitmap::write, a file from_bytes cannot decode
DecodeFailurePanics ==
    {"failed to create ADPCM reader", "unwrap on None", "failed to read palette",
     "failed to write bitmap file", "unwrap on None from from_bytes"}

\* C6: no decode failure aborts the extraction: process_tags goes on with
\* the following records after a malformed one.
C6_FailuresDoNotAbort == p_panic \notin DecodeFailurePanics

\* the stream file is a WAV file that process_tags has written
StreamWavWritten ==
    /\ p_pc \in {"done", "panicked"}
    /\ FileName("stream", "wav") \in DOMAIN files
    /\ stream_sound.format.compression \in {"Adpcm", "Uncompressed"}

\* C17: the WAV file is RIFF, size, WAVE, 'fmt ', 16, format data, 'data',
\* size, samples, with the RIFF size 36 + data length and the data size the
\* data length; for an ADPCM sound bits_per_sample is 16, block_align is
\* 2 * channels and byte_rate is sample_rate * block_align whatever the
\* format's is_16_bit flag says.
C17_WavLayout ==
    StreamWavWritten =>
        LET format == stream_sound.format
            samples == stream_sound.data
            channels == IF format.is_stereo THEN 2 ELSE 1
            bits_per_sample == IF format.compression = "Adpcm" THEN 16
                               ELSE IF format.is_16_bit THEN 16 ELSE 8
            block_align == (bits_per_sample \div 8) * channels
            byte_rate == format.sample_rate * block_align
        IN  files[FileName("stream", "wav")] =
                RIFF \o u32_le(36 + Len(samples)) \o WAVE
                \o FMT \o u32_le(16)
                \o u16_le(1) \o u16_le(channels) \o u32_le(format.sample_rate)
                \o u32_le(byte_rate) \o u16_le(block_align) \o u16_le(bits_per_sample)
                \o DATA \o u32_le(Len(samples)) \o samples

\* the tag is a SoundStreamHead or a SoundStreamHead2
IsHead(t) == t.tag \in {"SoundStreamHead", "SoundStreamHead2"}

\* the place of the last head among the stream tags, 0 when there is none
LastHead(tags) ==
    IF \E i \in DOMAIN tags : IsHead(tags[i])
    THEN CHOOSE i \in DOMAIN tags :
            IsHead(tags[i]) /\ \A j \in DOMAIN tags : IsHead(tags[j]) => j <= i
    ELSE 0

\* the blocks behind place h, in tag order, each as a sound of the format
\* holds it (an ADPCM block decoded, any other block as it is)
AccumulatedSince(tags, h, format) ==
    Flatten([k \in 1..(Len(tags) - h) |-> DecodedAlone(format, tags[h + k].data)])

\* the names of the stream files
StreamFiles == {n \in DOMAIN files : n[1] = "stream"}

\* C21: the stream sound is an accumulator: a block before any head is
\* ignored, each head replaces the accumulator with an empty one, and at
\* the end exactly one stream file is written, holding the blocks appended
\* since the last head in tag order, and only if that data is not empty.
C21_StreamAccumulator ==
    p_pc # "idle" =>
        LET h == LastHead(p_tags) IN
        /\ h = 0 => stream_sound = None
        /\ h > 0 =>
              /\ stream_sound # None
              /\ stream_sound.format = p_tags[h].stream_format
              /\ stream_sound.data = AccumulatedSince(p_tags, h, p_tags[h].stream_format)
        /\ p_pc = "tags" => StreamFiles = {}
        /\ p_pc = "done" =>
              IF h > 0 /\ AccumulatedSince(p_tags, h, p_tags[h].stream_format) # <<>>
              THEN LET format == p_tags[h].stream_format
                       name == FileName("stream", Sound_extension([format |-> format]))
                   IN  /\ StreamFiles = {name}
                       /\ files[name] =
                            Sound_write([format |-> format,
                                         data |-> AccumulatedSince(p_tags, h, format)]).bytes
              ELSE StreamFiles = {}

\* a block under a first head, a second head, a block under it: the file
\* written at the end holds the second block only
C21_Witness ==
    /\ p_pc = "done"
    /\ Len(p_tags) = 4
    /\ IsHead(p_tags[1])
    /\ ~IsHead(p_tags[2])
    /\ DecodedAlone(p_tags[1].stream_format, p_tags[2].data) # <<>>
    /\ IsHead(p_tags[3])
    /\ ~IsHead(p_tags[4])
    /\ stream_sound.data = DecodedAlone(p_tags[3].stream_format, p_tags[4].data)
    /\ stream_sound.data # <<>>
    /\ StreamFiles # {}

\* a block has been met before any head and ignored
C21_WitnessIgnored ==
    /\ p_pc = "done"
    /\ Len(p_tags) >= 1
    /\ LastHead(p_tags) = 0
    /\ stream_sound = None
    /\ StreamFiles = {}

\* the frames a decoder yields from its state rd to the end of its sequence
RECURSIVE FramesFrom(_, _)
FramesFrom(buf, rd) ==
    LET nx == AdpcmDecoder_next(buf, rd) IN
    IF nx.frame = <<>> THEN <<>> ELSE <<nx.frame>> \o FramesFrom(buf, nx.reader)

\* the frames of a block
FramesOf(block, is_stereo) ==
    LET res == AdpcmDecoder_new(block, is_stereo) IN
    IF res.err # "none" THEN <<>> ELSE FramesFrom(block, res.reader)

\* a signed 16-bit sample as two bytes, the low byte first
Le16(sample) ==
    LET u == (sample + 65536) % 65536 IN <<u % 256, u \div 256>>

\* the bytes of a frame: the left sample, then the right one of a stereo frame
FrameLe16(frame, is_stereo) ==
    IF is_stereo THEN Le16(frame[1]) \o Le16(frame[2]) ELSE Le16(frame[1])

\* C23: for an ADPCM sound that starts with empty data, after any sequence
\* of successful append_data calls the length of the data is a multiple of
\* 2 * channels, each decoded frame having appended its samples as
\* little-endian 16-bit values, left before right.
C23_FrameAligned ==
    (p_pc # "idle" /\ stream_sound # None) =>
        (stream_sound.format.compression = "Adpcm" =>
            LET st == stream_sound.format.is_stereo IN
            /\ Len(stream_sound.data) % (2 * (IF st THEN 2 ELSE 1)) = 0
            /\ stream_sound.data =
                  Flatten([k \in 1..Len(p_blocks) |->
                      LET frames == FramesOf(p_blocks[k], st) IN
                      Flatten([f \in 1..Len(frames) |-> FrameLe16(frames[f], st)])]))

\* two blocks have been appended to a stereo ADPCM sound, the first frame
\* with a left sample that is not its right sample
C23_Witness ==
    /\ p_pc = "tags"
    /\ stream_sound # None
    /\ stream_sound.format.compression = "Adpcm"
    /\ stream_sound.format.is_stereo
    /\ Len(p_blocks) >= 2
    /\ Len(stream_sound.data) >= 16
    /\ SubSeq(stream_sound.data, 1, 2) # SubSeq(stream_sound.data, 3, 4)

\* C22: Sound::write succeeds without panicking for every compression for
\* which Sound::extension returns "wav": each of them is written as a
\* RIFF/WAVE container.
C22_WavWritesSucceed ==
    /\ p_panic # "unreachable"
    /\ \A n \in DOMAIN files :
          n[2] = "wav" => (starts_with(files[n], RIFF) /\ SubSeq(files[n], 9, 12) = WAVE)

====
